---- MODULE Spec2Model ----
(***************************************************************************)
(* The query engine of librustc/ty/maps.rs: one memo table per query kind, *)
(* a per-crate table of providers, and the stack of in-flight queries.     *)
(*                                                                         *)
(* maps.rs holds the registry (define_maps!), the provider table with its  *)
(* default stubs, the Query frames and the dispatching closure handed to   *)
(* memoize.  The body of memoize (dep_graph::DepTrackingMap) and the users *)
(* of Maps::query_stack live in other files of the repository; those steps *)
(* follow spec.md sections 4.2, 4.4, 4.5 and 7.                            *)
(***************************************************************************)
EXTENDS Integers, Sequences, FiniteSets, TLC

(* ---------------------------------------------------------------- bounds *)

\* Top-level get calls issued by the driver in one session.
MaxTop == 2

\* Nested get calls written in the bodies of all the providers together.
MaxCalls == 2

(* -------------------------------------------------------------- registry *)

\* Two of the kinds of define_maps!; both are declared with the dep node
\* ItemSignature (maps.rs 115, 119).
Kinds == {"ty", "generics"}

Crates == {0, 1}

Indices == {0}

\* DefId: the crate that owns the definition and its index in that crate.
Keys == [krate : Crates, index : Indices]

\* enum Query { $name($K) }: one variant per kind, carrying the key.
Query == [name : Kinds, key : Keys]

\* Faulty variant of map_crate: every key is taken to be of the local crate.
map_crate_local(key) == 0

\* impl Key for DefId: the owning crate of a key.
map_crate(key) == key.krate

\* Faulty variants of QueryEq: no two frames are equal; frames of the same
\* variant are equal whatever their keys.
QueryEqNever(a, b) == FALSE

QueryEqNameOnly(a, b) == a.name = b.name

\* DepTrackingMapConfig::to_dep_node: DepNode::$node(*key); ty and generics
\* are both declared with the node ItemSignature.
to_dep_node(name, key) == [node |-> "ItemSignature", key |-> key]

\* Faulty variant of QueryEq: frames are equal when their dep nodes are.
QueryEqDepNode(a, b) == to_dep_node(a.name, a.key) = to_dep_node(b.name, b.key)

\* #[derive(PartialEq, Eq)] on Query: same variant and same key.
QueryEq(a, b) == a.name = b.name /\ a.key = b.key

\* Faulty variant of MapOf: every method uses the map of ty.
MapOfTy(name) == "ty"

\* self.$name in Maps::$name: the method of a kind uses the map of that kind.
MapOf(name) == name

NoValue == [type |-> "NoValue"]

\* The value a registered provider computes.  Values are opaque in the
\* source; the record names the provider slot (crate, kind) that produced
\* it, the key it was given and which run of that provider it was.
ProviderValue(crate, name, key, run) ==
    [type |-> "Value", by |-> <<crate, name>>, key |-> key, run |-> run]

Values == { ProviderValue(c, n, k, r) :
              c \in Crates, n \in Kinds, k \in Keys, r \in 1..(MaxTop + 1) }

\* Faulty variant of DefaultProvider: the stub answers with a default value.
DefaultProviderZero(name, key) ==
    [type |-> "Value", by |-> <<0, "default">>, key |-> key, run |-> 0]

\* Providers::default: every slot starts as a stub that raises
\* bug!("tcx.maps.{}({:?}) unsupported by its crate", name, key).
DefaultProvider(name, key) ==
    [type |-> "UnsupportedQuery", name |-> name, key |-> key]

\* The failure of a get whose pair is already pending: the frames from the
\* matching one to the top of the stack.
CycleError(q, chain) == [type |-> "Cycle", name |-> q.name, key |-> q.key, chain |-> chain]

\* Faulty variant of IsFailure: only a cycle counts as a failure.
IsFailureCycleOnly(out) == out.type = "Cycle"

\* The two failures of get.
IsFailure(out) == out.type \in {"Cycle", "UnsupportedQuery"}

IsValue(out) == out.type = "Value"

\* The nested calls a provider may issue, in order.
RECURSIVE SeqsUpTo(_, _)
SeqsUpTo(S, n) ==
    IF n = 0 THEN {<<>>}
    ELSE LET shorter == SeqsUpTo(S, n - 1)
         IN  shorter \cup { Append(s, x) : s \in {t \in shorter : Len(t) = n - 1}, x \in S }

CallSeqs == SeqsUpTo(Query, MaxCalls)

Undecided == <<[name |-> "undecided"]>>

(* ----------------------------------------------------------------- state *)

VARIABLES
    providers,    \* Maps.providers: crate -> kind -> "stub" | "impl"
    calls,        \* the body of each registered provider: its nested gets
    memo,         \* Maps.$name: kind -> key -> cached value or NoValue
    query_stack,  \* Maps.query_stack: the in-flight queries, oldest first
    frames,       \* the activations of get on the call stack, oldest first
    ret,          \* the outcome the innermost finished get handed its caller
    tops,         \* top-level gets issued so far
    entered,      \* per pair: how often its registered provider was entered
    rets,         \* per pair: the values successful gets returned
    failed,       \* the pairs for which some get ended in a failure
    nodes,        \* DepGraph: the nodes create_or_get_node has made
    edges,        \* DepGraph: the edges record_edge has recorded, <<from, to>>
    created,      \* per pair: the calls of create_or_get_node for it
    linked,       \* per pair: the calls of record_edge for it
    fs,           \* bootstrap docs: the tree under src/doc, path -> kind of entry
    doc_stack,    \* bootstrap docs: the worklist `stack`
    tested,       \* bootstrap docs: the paths handed to markdown_test, in order
    launched,     \* bootstrap docs: the paths rustdoc --test was launched for
    doc_pc,       \* bootstrap docs: "idle", "loop" or "done"
    session,      \* replay: 1 for the first engine instance, 2 for the second
    log,          \* replay: the outcomes of the top-level gets of this instance
    first,        \* replay: what the first instance did, once it is dropped
    no_fail_fast, \* bootstrap: build.flags.cmd.no_fail_fast()
    delayed_failures, \* bootstrap: build.delayed_failures
    todo,         \* bootstrap: the commands the step still has to run
    done,         \* bootstrap: the commands that were run, in order
    exited,       \* bootstrap: the process has ended on a failed command
    crates,       \* bootstrap krate: build.crates, name -> deps
    next,         \* bootstrap krate: the worklist `next`
    visited,      \* bootstrap krate: the set `visited`
    cargo_args,   \* bootstrap krate: the -p arguments passed to cargo
    krate_pc      \* bootstrap krate: "idle", "loop" or "done"

dep == <<nodes, edges, created, linked>>

docs == <<fs, doc_stack, tested, launched, doc_pc>>

twin == <<session, log, first>>

runs == <<no_fail_fast, delayed_failures, todo, done, exited>>

krates == <<crates, next, visited, cargo_args, krate_pc>>

\* What a get leaves alone: the second instance's bookkeeping and the
\* build system.
others == <<docs, twin, runs, krates>>

maps == <<providers, calls, memo, query_stack, frames, ret, tops, entered, rets, failed,
          nodes, edges, created, linked>>

vars == <<providers, calls, memo, query_stack, frames, ret, tops, entered, rets, failed,
          nodes, edges, created, linked, fs, doc_stack, tested, launched, doc_pc,
          session, log, first, no_fail_fast, delayed_failures, todo, done, exited,
          crates, next, visited, cargo_args, krate_pc>>

\* DepGraph.current_node when nothing is executing.
Root == [node |-> "Root"]

NoRet == [type |-> "NoRet"]

Top == frames[Len(frames)]

Running == frames # <<>>

At(pc) == Running /\ Top.pc = pc

SetTop(f) == [frames EXCEPT ![Len(frames)] = f]

DropTop == SubSeq(frames, 1, Len(frames) - 1)

\* Faulty variant of ProviderBody: the provider is not a plain function;
\* what it asks for is open again at every run.
ProviderBodyOpen(c, q) == Undecided

\* pub $name: fn(TyCtxt, $K) -> $V: a slot holds a plain function, so the
\* nested gets a provider issues for a key are the same at every run.
ProviderBody(c, q) == c[q]

\* The nested calls in the provider bodies fixed so far.
RECURSIVE CallSites(_)
CallSites(S) ==
    IF S = {} THEN 0
    ELSE LET q == CHOOSE x \in S : TRUE
         IN  Len(calls[q]) + CallSites(S \ {q})

Decided == { q \in Query : calls[q] # Undecided }

\* Faulty variant of MemoLookup: the table is never consulted.
MemoLookupMiss(m, q) == NoValue

\* MemoTable.lookup in the table of the kind.
MemoLookup(m, q) == m[MapOf(q.name)][q.key]

\* Faulty variant of MemoInsert: the entry is written for the key in the
\* tables of all kinds.
MemoInsertAnyKind(m, q, v) ==
    [n \in Kinds |-> [k \in Keys |-> IF k = q.key THEN v ELSE m[n][k]]]

\* MemoTable.insert in the table of the kind: the first writer wins.
MemoInsert(m, q, v) ==
    IF m[MapOf(q.name)][q.key] = NoValue
    THEN [m EXCEPT ![MapOf(q.name)][q.key] = v]
    ELSE m

\* Faulty variant of PopFrame: the frame stays.
PopFrameKeep(stack) == stack

\* Removing the top frame of the query stack.
PopFrame(stack) == SubSeq(stack, 1, Len(stack) - 1)

\* The positions of the frames on the stack equal to q.
Matches(stack, q) == { i \in 1..Len(stack) : QueryEq(stack[i], q) }

\* DepGraph.current_node: the node of the query that is executing.
CurrentNode ==
    IF frames = <<>> THEN Root ELSE to_dep_node(Top.q.name, Top.q.key)

\* A new activation of get(q): it remembers the query stack and the active
\* dep node at the call.
NewFrame(q) ==
    [q |-> q, pc |-> "lookup", n |-> 0, entry |-> query_stack, from |-> CurrentNode,
     out |-> NoValue]

\* What a finished get hands its caller: the value or the failure, with
\* the path the get took ("hit", "provider", "cycle" or "unwind") and the
\* query stack and the active dep node as they were when the get was issued.
Outcome(f, out, via) ==
    [type |-> "Ret", q |-> f.q, out |-> out, via |-> via, entry |-> f.entry,
     from |-> f.from]

TypeOK ==
    /\ providers \in [Crates -> [Kinds -> {"stub", "impl"}]]
    /\ memo \in [Kinds -> [Keys -> Values \cup {NoValue}]]
    /\ query_stack \in Seq(Query)
    /\ tops \in 0..MaxTop
    /\ entered \in [Query -> 0..MaxTop]
    /\ failed \subseteq Query

(* ------------------------------------------------------------------ init *)

\* Faulty variant of NewQueryStack: the stack starts with a stale frame.
NewQueryStackStale == <<[name |-> "ty", key |-> [krate |-> 0, index |-> 0]]>>

\* Maps::new: query_stack: RefCell::new(vec![]).
NewQueryStack == <<>>

\* The build system is not running the documentation tests.
DocsIdle ==
    /\ fs = [p \in {<<>>} |-> "dir"]
    /\ doc_stack = <<>>
    /\ tested = <<>>
    /\ launched = <<>>
    /\ doc_pc = "idle"

\* There is one engine instance and no record of an earlier one.
NoFirst == [type |-> "NoFirst"]

TwinIdle ==
    /\ session = 1
    /\ log = <<>>
    /\ first = NoFirst

\* The build system is running no commands.
RunsIdle ==
    /\ no_fail_fast = FALSE
    /\ delayed_failures = 0
    /\ todo = <<>>
    /\ done = <<>>
    /\ exited = FALSE

\* The build system is not running the tests of a crate.
KratesIdle ==
    /\ crates = [n \in {} |-> {}]
    /\ next = <<>>
    /\ visited = {}
    /\ cargo_args = <<>>
    /\ krate_pc = "idle"

\* Maps::new: one empty map per kind ...
NewMemo == [n \in Kinds |-> [k \in Keys |-> NoValue]]

\* Maps::new: the driver's provider table, an empty query stack and one
\* empty map per kind.
Init ==
    /\ DocsIdle
    /\ TwinIdle
    /\ RunsIdle
    /\ KratesIdle
    /\ providers \in [Crates -> [Kinds -> {"stub", "impl"}]]
    /\ calls = [q \in Query |-> Undecided]
    /\ memo = NewMemo
    /\ query_stack = NewQueryStack
    /\ frames = <<>>
    /\ ret = NoRet
    /\ tops = 0
    /\ entered = [q \in Query |-> 0]
    /\ rets = [q \in Query |-> {}]
    /\ failed = {}
    /\ nodes = {}
    /\ edges = {}
    /\ created = [q \in Query |-> 0]
    /\ linked = [q \in Query |-> 0]

(* --------------------------------------------------------------- actions *)

\* The driver asks for a query while no get is in progress.
TopGet(q) ==
    /\ frames = <<>>
    /\ tops < MaxTop
    /\ tops' = tops + 1
    /\ frames' = <<NewFrame(q)>>
    /\ ret' = NoRet
    /\ UNCHANGED <<others, dep, providers, calls, memo, query_stack, entered, rets, failed>>

\* Step 1, hit: the cached value is returned at once.
LookupHit ==
    /\ At("lookup")
    /\ MemoLookup(memo, Top.q) # NoValue
    /\ ret' = Outcome(Top, MemoLookup(memo, Top.q), "hit")
    /\ rets' = [rets EXCEPT ![Top.q] = @ \cup {MemoLookup(memo, Top.q)}]
    /\ frames' = DropTop
    /\ UNCHANGED <<others, dep, providers, calls, memo, query_stack, tops, entered, failed>>

\* Step 1, miss.
LookupMiss ==
    /\ At("lookup")
    /\ MemoLookup(memo, Top.q) = NoValue
    /\ frames' = SetTop([Top EXCEPT !.pc = "scan"])
    /\ UNCHANGED <<others, dep, providers, calls, memo, query_stack, ret, tops, entered, rets, failed>>

\* Step 2, a frame for the pair is pending: the get fails with the chain
\* of frames from the matching one to the top; it pushed nothing.
ScanCycle ==
    /\ At("scan")
    /\ Matches(query_stack, Top.q) # {}
    /\ LET i == CHOOSE j \in Matches(query_stack, Top.q) :
                    \A k \in Matches(query_stack, Top.q) : j <= k
           err == CycleError(Top.q, SubSeq(query_stack, i, Len(query_stack)))
       IN  ret' = Outcome(Top, err, "cycle")
    /\ failed' = failed \cup {Top.q}
    /\ frames' = DropTop
    /\ UNCHANGED <<others, dep, providers, calls, memo, query_stack, tops, entered, rets>>

\* Steps 2 and 3, no frame for the pair is pending: push the frame.
ScanPush ==
    /\ At("scan")
    /\ Matches(query_stack, Top.q) = {}
    /\ query_stack' = Append(query_stack, Top.q)
    /\ frames' = SetTop([Top EXCEPT !.pc = "dispatch"])
    /\ UNCHANGED <<others, dep, providers, calls, memo, ret, tops, entered, rets, failed>>

\* (self.providers[key.map_crate()].$name)(tcx, key), the slot still holds
\* the stub of Providers::default.
DispatchDefault ==
    /\ At("dispatch")
    /\ providers[map_crate(Top.q.key)][Top.q.name] = "stub"
    /\ LET out == DefaultProvider(Top.q.name, Top.q.key)
       IN  frames' = SetTop([Top EXCEPT !.out = out,
                                        !.pc = IF IsFailure(out) THEN "unwind" ELSE "bind"])
    /\ UNCHANGED <<others, dep, providers, calls, memo, query_stack, ret, tops, entered, rets, failed>>

\* (self.providers[key.map_crate()].$name)(tcx, key), a registered
\* provider: it starts to run.  Its body, the nested gets it issues, is
\* fixed the first time it runs.
DispatchProvider ==
    /\ At("dispatch")
    /\ providers[map_crate(Top.q.key)][Top.q.name] = "impl"
    /\ entered[Top.q] < MaxTop
    /\ IF ProviderBody(calls, Top.q) = Undecided
       THEN \E s \in CallSeqs :
                /\ Len(s) + CallSites(Decided) <= MaxCalls
                /\ calls' = [calls EXCEPT ![Top.q] = s]
       ELSE calls' = calls
    /\ entered' = [entered EXCEPT ![Top.q] = @ + 1]
    /\ frames' = SetTop([Top EXCEPT
            !.out = ProviderValue(map_crate(Top.q.key), Top.q.name, Top.q.key,
                                  entered[Top.q] + 1),
            !.pc = "running"])
    /\ UNCHANGED <<others, dep, providers, memo, query_stack, ret, tops, rets, failed>>

\* The running provider issues its next nested get on the same engine.
ProviderCall ==
    /\ At("running")
    /\ Top.n < Len(calls[Top.q])
    /\ frames' = Append(SetTop([Top EXCEPT !.n = @ + 1, !.pc = "waiting"]),
                        NewFrame(calls[Top.q][Top.n + 1]))
    /\ ret' = NoRet
    /\ UNCHANGED <<others, dep, providers, calls, memo, query_stack, tops, entered, rets, failed>>

\* The nested get returned a value: the provider goes on.
ResumeOk ==
    /\ At("waiting")
    /\ ret # NoRet
    /\ IsValue(ret.out)
    /\ frames' = SetTop([Top EXCEPT !.pc = "running"])
    /\ ret' = NoRet
    /\ UNCHANGED <<others, dep, providers, calls, memo, query_stack, tops, entered, rets, failed>>

\* The nested get failed: the failure propagates through the provider.
ResumeFail ==
    /\ At("waiting")
    /\ ret # NoRet
    /\ IsFailure(ret.out)
    /\ frames' = SetTop([Top EXCEPT !.pc = "unwind", !.out = ret.out])
    /\ ret' = NoRet
    /\ UNCHANGED <<others, dep, providers, calls, memo, query_stack, tops, entered, rets, failed>>

\* The provider has issued all its nested gets and returns its value.
ProviderReturn ==
    /\ At("running")
    /\ Top.n = Len(calls[Top.q])
    /\ frames' = SetTop([Top EXCEPT !.pc = "bind"])
    /\ UNCHANGED <<others, dep, providers, calls, memo, query_stack, ret, tops, entered, rets, failed>>

\* Step 4: the dep node of the pair is derived and the result bound to it.
Bind ==
    /\ At("bind")
    /\ nodes' = nodes \cup {to_dep_node(Top.q.name, Top.q.key)}
    /\ created' = [created EXCEPT ![Top.q] = @ + 1]
    /\ frames' = SetTop([Top EXCEPT !.pc = "edge"])
    /\ UNCHANGED <<others, providers, calls, memo, query_stack, ret, tops, entered, rets,
                   failed, edges, linked>>

\* Step 4: the edge from the node that was active when the get began.
Edge ==
    /\ At("edge")
    /\ edges' = edges \cup {<<Top.from, to_dep_node(Top.q.name, Top.q.key)>>}
    /\ linked' = [linked EXCEPT ![Top.q] = @ + 1]
    /\ frames' = SetTop([Top EXCEPT !.pc = "pop"])
    /\ UNCHANGED <<others, providers, calls, memo, query_stack, ret, tops, entered, rets,
                   failed, nodes, created>>

\* The frame of the pair leaves the query stack ...
Pop ==
    /\ At("pop")
    /\ query_stack' = PopFrame(query_stack)
    /\ frames' = SetTop([Top EXCEPT !.pc = "insert"])
    /\ UNCHANGED <<others, dep, providers, calls, memo, ret, tops, entered, rets, failed>>

\* ... and only then memoize stores the result: the insert follows the
\* return of the closure handed to memoize (maps.rs 99-101), and a frame is
\* popped strictly before its result is inserted (spec.md section 3).
Insert ==
    /\ At("insert")
    /\ memo' = MemoInsert(memo, Top.q, Top.out)
    /\ frames' = SetTop([Top EXCEPT !.pc = "return"])
    /\ UNCHANGED <<others, dep, providers, calls, query_stack, ret, tops, entered, rets, failed>>

\* get hands the value to its caller.
ReturnValue ==
    /\ At("return")
    /\ ret' = Outcome(Top, Top.out, "provider")
    /\ rets' = [rets EXCEPT ![Top.q] = @ \cup {Top.out}]
    /\ frames' = DropTop
    /\ UNCHANGED <<others, dep, providers, calls, memo, query_stack, tops, entered, failed>>

\* A failure leaves get: the frame this get pushed is popped, nothing is
\* stored, and the failure reaches the caller.
Unwind ==
    /\ At("unwind")
    /\ query_stack' = PopFrame(query_stack)
    /\ ret' = Outcome(Top, Top.out, "unwind")
    /\ failed' = failed \cup {Top.q}
    /\ frames' = DropTop
    /\ UNCHANGED <<others, dep, providers, calls, memo, tops, entered, rets>>

Next ==
    \/ \E q \in Query : TopGet(q)
    \/ LookupHit
    \/ LookupMiss
    \/ ScanCycle
    \/ ScanPush
    \/ DispatchDefault
    \/ DispatchProvider
    \/ ProviderCall
    \/ ResumeOk
    \/ ResumeFail
    \/ ProviderReturn
    \/ Bind
    \/ Edge
    \/ Pop
    \/ Insert
    \/ ReturnValue
    \/ Unwind

Spec == Init /\ [][Next]_vars

(* ---------------------------------------------------------------- claims *)

Cached(q) == memo[q.name][q.key]

OnStack(q) == \E i \in 1..Len(query_stack) : query_stack[i] = q

Returned == ret.type = "Ret"

ReturnedValue == Returned /\ IsValue(ret.out)

ReturnedFailure == Returned /\ IsFailure(ret.out)

\* C1 as stated: in any sequence of gets, the successful ones of a pair
\* return equal values and the provider of the pair is not executed a
\* second time.
C1_Original ==
    \A q \in Query : Cardinality(rets[q]) <= 1 /\ entered[q] <= 1

\* C1. Memoization: for every pair that some get (top-level or nested) has
\* answered with a value, all the values returned are equal and the
\* provider of the pair was executed exactly once; the provider of a pair
\* whose get failed is executed again by a later get of the pair.
C1_Memoization ==
    \A q \in Query :
        rets[q] # {} => Cardinality(rets[q]) = 1 /\ entered[q] = 1

\* A second top-level get(q) returned a value after a nested get(q),
\* issued by the provider of another pair, had returned one.
C1_Witness ==
    /\ ReturnedValue
    /\ frames = <<>>
    /\ tops = 2
    /\ ret.via = "hit"
    /\ \E p \in Query :
          /\ p # ret.q
          /\ rets[p] # {}
          /\ calls[p] = <<ret.q>>

\* C2. Cross-crate dispatch: the provider entered for a missed get(kind,
\* key) is the one of the slot (owning crate of key, kind), whoever issued
\* the get; so is the provider behind every value returned or cached.
C2_CrossCrateDispatch ==
    /\ \A i \in 1..Len(frames) :
          IsValue(frames[i].out) =>
              /\ frames[i].out.by = <<frames[i].q.key.krate, frames[i].q.name>>
              /\ frames[i].out.key = frames[i].q.key
    /\ \A q \in Query : \A v \in rets[q] :
          v.by = <<q.key.krate, q.name>> /\ v.key = q.key
    /\ \A q \in Query :
          Cached(q) # NoValue => Cached(q).by = <<q.key.krate, q.name>>

\* The provider of a key of crate 1 runs on a request issued by the
\* provider of a key of crate 0.
C2_Witness ==
    /\ Len(frames) >= 2
    /\ Top.pc = "running"
    /\ Top.q.key.krate = 1
    /\ frames[Len(frames) - 1].q.key.krate = 0
    /\ frames[Len(frames) - 1].pc = "waiting"

\* C3. Cycle detection: a get issued while its own pair is pending returns
\* a Cycle failure, and no provider is entered for a pair whose provider is
\* still running, so the nesting of provider invocations is bounded by the
\* number of pairs.
ProviderActive(f) == f.pc \in {"running", "waiting"}

C3_CycleDetection ==
    /\ Returned /\ (\E i \in 1..Len(ret.entry) : ret.entry[i] = ret.q)
          => ret.out.type = "Cycle" /\ ret.via = "cycle"
    /\ \A i, j \in 1..Len(frames) :
          i < j /\ ProviderActive(frames[i]) /\ ProviderActive(frames[j])
              => frames[i].q # frames[j].q
    /\ Len(frames) <= Cardinality(Query) + 1

\* provider(Q,a) calls get(Q,b), provider(Q,b) calls get(Q,a), and the
\* inner get(Q,a) of a top-level get(Q,a) has just returned Cycle.
C3_Witness ==
    /\ Returned
    /\ ret.out.type = "Cycle"
    /\ Len(ret.entry) = 2
    /\ ret.entry[1] = ret.q
    /\ ret.entry[2] # ret.q
    /\ ret.entry[2].name = ret.q.name
    /\ calls[ret.q] = <<ret.entry[2]>>
    /\ calls[ret.entry[2]] = <<ret.q>>
    /\ Len(frames) = 2

\* C4. Unsupported query: a get for a pair whose slot (owning crate, kind)
\* was never registered ends in an UnsupportedQuery failure naming the
\* kind and the key; no value is returned or cached for such a pair.
Unregistered(q) == providers[q.key.krate][q.name] = "stub"

C4_Unsupported ==
    /\ Returned /\ Unregistered(ret.q)
          => ret.out = [type |-> "UnsupportedQuery", name |-> ret.q.name, key |-> ret.q.key]
    /\ \A q \in Query : Unregistered(q) => rets[q] = {} /\ Cached(q) = NoValue

\* A get for an unregistered slot has failed, top-level or nested.
C4_Witness ==
    /\ Returned
    /\ Unregistered(ret.q)
    /\ ret.out.type = "UnsupportedQuery"
    /\ ret.entry # <<>>

\* C5. Stack integrity: when a get hands a Cycle or UnsupportedQuery
\* failure to its caller, the query stack is what it was when the get was
\* issued.
C5_StackIntegrity ==
    ReturnedFailure => query_stack = ret.entry

\* A top-level get(a) failed because a called b and b called an
\* unregistered c: the failure crossed two provider frames.
C5_Witness ==
    /\ ReturnedFailure
    /\ frames = <<>>
    /\ ret.via = "unwind"
    /\ ret.out.type = "UnsupportedQuery"
    /\ \E b \in Query :
          /\ b # ret.q
          /\ calls[ret.q] = <<b>>
          /\ calls[b] = <<[name |-> ret.out.name, key |-> ret.out.key]>>
          /\ b # [name |-> ret.out.name, key |-> ret.out.key]

C8_Original ==
    ReturnedFailure => Cached(ret.q) = NoValue /\ ~OnStack(ret.q)

\* C8. Failures are not memoized: a pair for which a get failed has no
\* memo entry, so every later get of it misses, scans and dispatches
\* again; when the failure reaches the caller the pair is on the query
\* stack only if this get is the one that found the pair pending (Cycle),
\* and not at all once the failure has reached the top-level caller.
C8_FailuresNotMemoized ==
    /\ \A q \in failed : Cached(q) = NoValue
    /\ \A i \in 1..Len(frames) :
          frames[i].q \in failed =>
              frames[i].pc \notin {"bind", "edge", "pop", "insert", "return"}
    /\ ReturnedFailure /\ OnStack(ret.q) => ret.via = "cycle" /\ frames # <<>>
    /\ ReturnedFailure /\ frames = <<>> => query_stack = <<>>

\* The provider of a pair whose first get failed runs again on a retry.
C8_Witness ==
    /\ At("running")
    /\ Top.q \in failed
    /\ entered[Top.q] = 2
    /\ tops = 2

\* C9. Cache hit: a get for a pair that is in its memo table returns the
\* cached value in one step that enters no provider and leaves the query
\* stack and all memo tables as they are.
C9_CacheHitNoEffect ==
    [][(At("lookup") /\ Cached(Top.q) # NoValue) =>
          /\ ret' = Outcome(Top, Cached(Top.q), "hit")
          /\ frames' = DropTop
          /\ memo' = memo
          /\ query_stack' = query_stack
          /\ entered' = entered
          /\ calls' = calls]_vars

\* A nested get was answered from the cache while its caller is pending.
C9_Witness ==
    /\ ReturnedValue
    /\ ret.via = "hit"
    /\ At("waiting")
    /\ query_stack = ret.entry
    /\ Cached(ret.q) = ret.out

\* C10. No provider starts while its own pair is pending: the query stack
\* never holds two frames for the same pair, and every get that has passed
\* the scan has exactly its own frame for its pair on the stack.
C10_NoDuplicateFrames ==
    /\ \A i, j \in 1..Len(query_stack) :
          query_stack[i] = query_stack[j] => i = j
    /\ \A i \in 1..Len(frames) :
          frames[i].pc \in {"dispatch", "running", "waiting", "bind", "edge", "pop", "unwind"} =>
              /\ Len(frames[i].entry) < Len(query_stack)
              /\ query_stack[Len(frames[i].entry) + 1] = frames[i].q
              /\ \A k \in 1..Len(frames[i].entry) : frames[i].entry[k] # frames[i].q

\* The scan of a get is about to find its own pair pending.
C10_Witness ==
    /\ At("scan")
    /\ OnStack(Top.q)
    /\ Len(query_stack) >= 2

\* C11. Pending/resolved state machine: every pair starts neither pending
\* nor resolved; a pair becomes resolved only in the insert step of its own
\* get, after its provider was entered with its frame on the query stack;
\* a resolved pair stays in its memo table and is never pushed again.
Pending(q) == OnStack(q)

Resolved(q) == Cached(q) # NoValue

C11_StateMachine ==
    /\ \A q \in Query : ~Pending(q) /\ ~Resolved(q)
    /\ [][\A q \in Query :
             /\ (~Resolved(q) /\ Resolved(q)') =>
                    At("insert") /\ Top.q = q /\ entered[q] >= 1 /\ ~Pending(q)
             /\ (~Pending(q) /\ Pending(q)') =>
                    At("scan") /\ Top.q = q /\ ~Resolved(q)
             /\ Resolved(q) => Resolved(q)' /\ ~Pending(q)']_vars

\* One pair is resolved, the pair whose provider asked for it is pending
\* and a third pair is neither.
C11_Witness ==
    \E q, p, r \in Query :
        /\ Resolved(q) /\ ~Pending(q)
        /\ Pending(p) /\ ~Resolved(p)
        /\ calls[p] # Undecided /\ Len(calls[p]) >= 1 /\ calls[p][1] = q
        /\ ~Pending(r) /\ ~Resolved(r) /\ entered[r] = 0

\* C12. DepGraph protocol: create_or_get_node and record_edge are called
\* once for a pair, in the completion of the get that resolves it, and the
\* edge runs from the node that was active when that get began to the node
\* of the pair; nothing is created or recorded for a pair whose get fails.
PastBind(q) ==
    \E i \in 1..Len(frames) :
        frames[i].q = q /\ frames[i].pc \in {"edge", "pop", "insert", "return"}

PastEdge(q) ==
    \E i \in 1..Len(frames) :
        frames[i].q = q /\ frames[i].pc \in {"pop", "insert", "return"}

C12_DepGraphProtocol ==
    /\ \A q \in Query :
          /\ created[q] = IF Resolved(q) \/ PastBind(q) THEN 1 ELSE 0
          /\ linked[q] = IF Resolved(q) \/ PastEdge(q) THEN 1 ELSE 0
          /\ created[q] >= 1 => to_dep_node(q.name, q.key) \in nodes
          /\ q \in failed \/ Unregistered(q) => created[q] = 0 /\ linked[q] = 0
    /\ ReturnedValue /\ ret.via = "provider" =>
          <<ret.from, to_dep_node(ret.q.name, ret.q.key)>> \in edges

\* A nested get has resolved its pair: the node exists and the edge from
\* the node of the calling query is recorded, while another get has failed.
C12_Witness ==
    /\ ReturnedValue
    /\ ret.via = "provider"
    /\ ret.from # Root
    /\ created[ret.q] = 1
    /\ linked[ret.q] = 1
    /\ <<ret.from, to_dep_node(ret.q.name, ret.q.key)>> \in edges
    /\ failed # {}

(* ------------------------------------------------- bootstrap/check.rs: docs *)

\* Entries in the tree under src/doc, the root not counted.
MaxDocEntries == 3

\* File and directory names.  The extension of a name and whether it
\* contains "nostarch" are what docs looks at.
DocNames == {"book", "a.md", "nostarch.md"}

\* Path::extension of the last component.
Extension(name) == IF name \in {"a.md", "nostarch.md"} THEN "md" ELSE ""

\* str::contains("nostarch") on a path below src/doc: some component
\* contains it (the name has no separator in it).
ContainsNostarch(path) ==
    \E i \in 1..Len(path) : path[i] \in {"nostarch.md"}

\* The paths below src/doc, given by their components; <<>> is src/doc.
DocPaths ==
    {<<>>} \cup { <<n>> : n \in DocNames } \cup { <<n, m>> : n, m \in DocNames }

Parent(path) == SubSeq(path, 1, Len(path) - 1)

\* A tree: the root is a directory, every entry lies in a directory, and
\* a file is plain text or holds a ``` fence.
DocTrees ==
    { t \in [DocPaths -> {"none", "dir", "fence", "plain"}] :
        /\ t[<<>>] = "dir"
        /\ \A p \in DocPaths : Len(p) = 2 => t[p] \in {"none", "fence", "plain"}
        /\ \A p \in DocPaths : (p # <<>> /\ t[p] # "none") => t[Parent(p)] = "dir"
        /\ Cardinality({ p \in DocPaths : p # <<>> /\ t[p] # "none" }) <= MaxDocEntries }

\* p.read_dir(): the entries of a directory.
ReadDir(p) ==
    { c \in DocPaths : Len(c) = Len(p) + 1 /\ Parent(c) = p /\ fs[c] # "none" }

\* The filter of docs: the extension is md and the path has no "nostarch".
DocFilter(c) ==
    /\ Extension(c[Len(c)]) = "md"
    /\ ~ContainsNostarch(c)

\* read_dir yields the entries in an order of its own.
Orders(S) ==
    { o \in [1..Cardinality(S) -> S] : \A i, j \in 1..Cardinality(S) : o[i] = o[j] => i = j }

DocsInit ==
    /\ fs \in DocTrees
    /\ doc_stack = <<>>
    /\ tested = <<>>
    /\ launched = <<>>
    /\ doc_pc = "idle"
    /\ TwinIdle
    /\ RunsIdle
    /\ KratesIdle
    /\ providers = [c \in Crates |-> [n \in Kinds |-> "stub"]]
    /\ calls = [q \in Query |-> Undecided]
    /\ memo = [n \in Kinds |-> [k \in Keys |-> NoValue]]
    /\ query_stack = NewQueryStack
    /\ frames = <<>>
    /\ ret = NoRet
    /\ tops = 0
    /\ entered = [q \in Query |-> 0]
    /\ rets = [q \in Query |-> {}]
    /\ failed = {}
    /\ nodes = {}
    /\ edges = {}
    /\ created = [q \in Query |-> 0]
    /\ linked = [q \in Query |-> 0]

\* let mut stack = vec![build.src.join("src/doc")];
DocsStart ==
    /\ doc_pc = "idle"
    /\ doc_stack' = <<<<>>>>
    /\ doc_pc' = "loop"
    /\ UNCHANGED <<maps, twin, runs, krates, fs, tested, launched>>

\* while let Some(p) = stack.pop(), p.is_dir(): the filtered entries of p
\* are pushed.
DocsDir ==
    /\ doc_pc = "loop"
    /\ doc_stack # <<>>
    /\ LET p == doc_stack[Len(doc_stack)]
       IN  /\ fs[p] = "dir"
           /\ \E o \in Orders({ c \in ReadDir(p) : DocFilter(c) }) :
                 doc_stack' = SubSeq(doc_stack, 1, Len(doc_stack) - 1) \o o
    /\ UNCHANGED <<maps, twin, runs, krates, fs, tested, launched, doc_pc>>

\* while let Some(p) = stack.pop(), p is a file: markdown_test(p), which
\* launches rustdoc --test when the contents hold a ``` fence.
DocsFile ==
    /\ doc_pc = "loop"
    /\ doc_stack # <<>>
    /\ LET p == doc_stack[Len(doc_stack)]
       IN  /\ fs[p] # "dir"
           /\ tested' = Append(tested, p)
           /\ launched' = IF fs[p] = "fence" THEN Append(launched, p) ELSE launched
    /\ doc_stack' = SubSeq(doc_stack, 1, Len(doc_stack) - 1)
    /\ UNCHANGED <<maps, twin, runs, krates, fs, doc_pc>>

\* The worklist is empty: docs returns.
DocsReturn ==
    /\ doc_pc = "loop"
    /\ doc_stack = <<>>
    /\ doc_pc' = "done"
    /\ UNCHANGED <<maps, twin, runs, krates, fs, doc_stack, tested, launched>>

DocsNext ==
    \/ DocsStart
    \/ DocsDir
    \/ DocsFile
    \/ DocsReturn

DocsSpec == DocsInit /\ [][DocsNext]_vars

Times(seq, x) == Cardinality({ i \in 1..Len(seq) : seq[i] = x })

\* The files the documentation of docs promises to test.
MarkdownFiles ==
    { p \in DocPaths :
        /\ p # <<>>
        /\ fs[p] \in {"fence", "plain"}
        /\ Extension(p[Len(p)]) = "md"
        /\ ~ContainsNostarch(p) }

\* C13. When docs returns, markdown_test has run exactly once on every
\* .md file at any depth under src/doc whose path has no "nostarch", on
\* nothing else, and rustdoc --test was launched for exactly those of
\* them that hold a ``` fence.
C13_DocsTestsEveryMarkdown ==
    doc_pc = "done" =>
        /\ \A p \in MarkdownFiles : Times(tested, p) = 1
        /\ \A i \in 1..Len(tested) : tested[i] \in MarkdownFiles
        /\ \A p \in MarkdownFiles : Times(launched, p) = IF fs[p] = "fence" THEN 1 ELSE 0
        /\ \A i \in 1..Len(launched) : fs[launched[i]] = "fence"

\* C14. The query stack mirrors the active call chain: it is, outermost
\* first, the pairs of the gets that have pushed their frame for the call
\* of their provider and not yet popped it, and it is empty whenever no get
\* is in progress.
InProviderCall(f) ==
    f.pc \in {"dispatch", "running", "waiting", "bind", "edge", "pop", "unwind"}

ActiveChain ==
    LET act == SelectSeq(frames, InProviderCall)
    IN  [i \in 1..Len(act) |-> act[i].q]

C14_StackMirrorsCalls ==
    /\ query_stack = ActiveChain
    /\ frames = <<>> => query_stack = <<>>

\* Two providers are nested: the stack holds the outer pair, then the
\* inner one.
C14_Witness ==
    /\ Len(frames) = 2
    /\ frames[1].pc = "waiting"
    /\ frames[2].pc = "running"
    /\ query_stack = <<frames[1].q, frames[2].q>>

\* C16. Cycle payload: the Cycle failure raised by get(kind,key) carries
\* the contiguous segment of the query stack from the frame equal to
\* (kind,key) to the top of the stack at the scan, oldest first.
C16_CyclePayload ==
    Returned /\ ret.via = "cycle" =>
        /\ ret.out.type = "Cycle"
        /\ ret.out.name = ret.q.name /\ ret.out.key = ret.q.key
        /\ \E i \in 1..Len(query_stack) :
              /\ query_stack[i] = ret.q
              /\ ret.out.chain = SubSeq(query_stack, i, Len(query_stack))
        /\ ret.out.chain[1] = ret.q

\* A cycle through two pairs was found: the payload is the frame of the
\* pair asked for, then the frame of the pair that asked.
C16_Witness ==
    /\ Returned
    /\ ret.via = "cycle"
    /\ Len(ret.out.chain) = 2
    /\ ret.out.chain[1] = ret.q
    /\ ret.out.chain[2] = Top.q
    /\ ret.out.chain[2] # ret.q

\* The steps of the completion of a get that a frame has behind it.
Completing(f) == f.pc \in {"bind", "edge", "pop", "insert", "return"}

StepsDone(f) ==
    <<created[f.q], linked[f.q],
      IF OnStack(f.q) THEN 0 ELSE 1,
      IF Cached(f.q) = NoValue THEN 0 ELSE 1>>

Failing(out) == out.type \in {"Cycle", "UnsupportedQuery"}

C17_FailureAborts ==
    /\ [](\A i \in 1..Len(frames) :
             Failing(frames[i].out) => frames[i].pc = "unwind")
    /\ [](\A q \in failed : Cached(q) = NoValue)
    /\ [][/\ (Returned /\ Failing(ret.out) /\ Running) =>
                /\ frames' = SetTop([Top EXCEPT !.pc = "unwind", !.out = ret.out])
                /\ memo' = memo
          /\ At("unwind") =>
                /\ ret' = Outcome(Top, Top.out, "unwind")
                /\ Top.q \in failed'
                /\ frames' = DropTop
                /\ memo' = memo]_vars

\* The top-level get has failed because the second nested get of its
\* provider failed; the pair its first nested get resolved is still
\* cached, the failed pairs are not.
C17_Witness ==
    /\ frames = <<>>
    /\ Returned
    /\ Failing(ret.out)
    /\ ret.via = "unwind"
    /\ Len(calls[ret.q]) = 2
    /\ Cached(calls[ret.q][1]) # NoValue
    /\ calls[ret.q][2] \in failed
    /\ Cached(ret.q) = NoValue

\* The steps of the engine itself; the driver alone decides on TopGet.
EngineStep ==
    \/ LookupHit
    \/ LookupMiss
    \/ ScanCycle
    \/ ScanPush
    \/ DispatchDefault
    \/ DispatchProvider
    \/ ProviderCall
    \/ ResumeOk
    \/ ResumeFail
    \/ ProviderReturn
    \/ Bind
    \/ Edge
    \/ Pop
    \/ Insert
    \/ ReturnValue
    \/ Unwind

\* Evaluation is synchronous on one thread: a get in progress goes on.
FairSpec == Spec /\ WF_vars(EngineStep)

\* C18. Termination: every top-level get ends, with a value or with a
\* Cycle or UnsupportedQuery failure, whatever the nested-call graph.
C18_Termination ==
    /\ Running ~> ~Running
    /\ [](~Running /\ tops > 0 =>
             Returned /\ ret.out.type \in {"Value", "Cycle", "UnsupportedQuery"})

\* A top-level get over a cyclic call graph has ended, in a Cycle failure
\* that went through two providers.
C18_Witness ==
    /\ ~Running
    /\ tops > 0
    /\ Returned
    /\ ret.out.type = "Cycle"
    /\ Len(ret.out.chain) = 2
    /\ ret.q = ret.out.chain[1]

\* Some frame of another kind for the same key is on the stack.
OtherKindPending(stack, q) ==
    \E i \in 1..Len(stack) : stack[i].key = q.key /\ stack[i].name # q.name

InSeq(stack, q) == \E i \in 1..Len(stack) : stack[i] = q

\* C19 as stated: a get(kind2,k) issued while (kind1,k) is pending and
\* (kind2,k) is not never fails with Cycle.
C19_Original ==
    (Returned /\ OtherKindPending(ret.entry, ret.q) /\ ~InSeq(ret.entry, ret.q))
        => ret.out.type # "Cycle"

\* C19. No false cycles across kinds: a get(kind2,k) issued while
\* (kind1,k) is pending and (kind2,k) is not never raises Cycle itself,
\* though both kinds have the dep node ItemSignature(k): its scan passes
\* and its frame is pushed.  It ends in a Cycle failure only when a nested
\* get found its own pair pending, and the payload then starts with that
\* pair, which was on the stack.
C19_NoFalseCycles ==
    /\ Returned /\ ret.via = "cycle" => InSeq(ret.entry, ret.q)
    /\ \A i \in 1..Len(frames) :
          (frames[i].pc = "scan" /\ ~InSeq(query_stack, frames[i].q))
              => Matches(query_stack, frames[i].q) = {}
    /\ (Returned /\ ret.out.type = "Cycle" /\ ~InSeq(ret.entry, ret.q)) =>
          /\ ret.via = "unwind"
          /\ ret.out.chain[1] = [name |-> ret.out.name, key |-> ret.out.key]
          /\ Cardinality({ i \in 1..Len(ret.out.chain) :
                              ret.out.chain[i] = ret.out.chain[1] }) = 1

\* get(generics,k) was issued by the provider of (ty,k) or the other way
\* round: both have the dep node ItemSignature(k), and the scan has let
\* the second frame on the stack.
C19_Witness ==
    /\ Len(frames) = 2
    /\ Top.pc = "dispatch"
    /\ OtherKindPending(Top.entry, Top.q)
    /\ to_dep_node(Top.q.name, Top.q.key) = to_dep_node(frames[1].q.name, frames[1].q.key)
    /\ query_stack = <<frames[1].q, Top.q>>

\* C20. Dependency completeness: once a pair is resolved, the graph has an
\* edge from its node to the node of every pair its provider asked for,
\* whether the nested get ran the provider or was answered from the table.
\* (A resolved pair's provider returned, so each of its nested gets
\* returned a value.)
C20_DependencyCompleteness ==
    \A q \in Query :
        (Resolved(q) /\ calls[q] # Undecided) =>
            \A i \in 1..Len(calls[q]) :
                <<to_dep_node(q.name, q.key),
                  to_dep_node(calls[q][i].name, calls[q][i].key)>> \in edges

(* -------------------------------------------------- two engine instances *)

\* The driver asks the instance for a query once the outcome of the get
\* before is on record; the second instance is asked what the first was
\* asked, in the same order.
TwinGet(q) ==
    /\ Len(log) = tops
    /\ session = 2 => tops < Len(first.log) /\ q = first.log[tops + 1].q
    /\ TopGet(q)

\* The outcome of a top-level get goes on record: the value, or the
\* failure with its kind, its key and, for a cycle, its chain of frames.
TwinRecord ==
    /\ ~Running
    /\ Len(log) < tops
    /\ log' = Append(log, [q |-> ret.q, out |-> ret.out])
    /\ UNCHANGED <<maps, docs, runs, krates, session, first>>

\* The first instance is dropped and Maps::new builds a second one with
\* the same provider table: empty maps and an empty query stack.
TwinRestart ==
    /\ session = 1
    /\ ~Running
    /\ tops > 0
    /\ Len(log) = tops
    /\ session' = 2
    /\ first' = [log |-> log, memo |-> memo, query_stack |-> query_stack]
    /\ log' = <<>>
    /\ memo' = NewMemo
    /\ query_stack' = NewQueryStack
    /\ frames' = <<>>
    /\ ret' = NoRet
    /\ tops' = 0
    /\ entered' = [q \in Query |-> 0]
    /\ rets' = [q \in Query |-> {}]
    /\ failed' = {}
    /\ nodes' = {}
    /\ edges' = {}
    /\ created' = [q \in Query |-> 0]
    /\ linked' = [q \in Query |-> 0]
    /\ UNCHANGED <<providers, calls, docs, runs, krates>>

TwinNext ==
    \/ \E q \in Query : TwinGet(q)
    \/ TwinRecord
    \/ TwinRestart
    \/ LookupHit
    \/ LookupMiss
    \/ ScanCycle
    \/ ScanPush
    \/ DispatchDefault
    \/ DispatchProvider
    \/ ProviderCall
    \/ ResumeOk
    \/ ResumeFail
    \/ ProviderReturn
    \/ Bind
    \/ Edge
    \/ Pop
    \/ Insert
    \/ ReturnValue
    \/ Unwind

TwinSpec == Init /\ [][TwinNext]_vars

C22_PerKindIsolation ==
    [][\A n \in Kinds, k \in Keys :
          memo'[n][k] # memo[n][k] =>
              /\ At("insert")
              /\ Top.q = [name |-> n, key |-> k]
              /\ memo[n][k] = NoValue
              /\ memo'[n][k] = Top.out]_vars

\* A get whose provider asked for nothing has stored its value: the entry
\* of the other kind for the same key is still empty and an older entry of
\* the same map is still there.
C22_Witness ==
    /\ At("return")
    /\ calls[Top.q] = <<>>
    /\ Top.n = 0
    /\ memo[Top.q.name][Top.q.key] = Top.out
    /\ \A n \in Kinds \ {Top.q.name} : memo[n][Top.q.key] = NoValue
    /\ \E k \in Keys \ {Top.q.key} : memo[Top.q.name][k] # NoValue

(* ------------------------- bootstrap/check.rs: try_run and try_run_quiet *)

\* Commands one step of the build hands to try_run / try_run_quiet.
MaxCmds == 3

\* A command: the wrapper it is run through and whether it succeeds.
Commands == [quiet : BOOLEAN, ok : BOOLEAN]

CmdSeqs == SeqsUpTo(Commands, MaxCmds)

\* Engine state while only the build system is looked at.
MapsIdle ==
    /\ providers = [c \in Crates |-> [n \in Kinds |-> "stub"]]
    /\ calls = [q \in Query |-> Undecided]
    /\ memo = NewMemo
    /\ query_stack = NewQueryStack
    /\ frames = <<>>
    /\ ret = NoRet
    /\ tops = 0
    /\ entered = [q \in Query |-> 0]
    /\ rets = [q \in Query |-> {}]
    /\ failed = {}
    /\ nodes = {}
    /\ edges = {}
    /\ created = [q \in Query |-> 0]
    /\ linked = [q \in Query |-> 0]

\* build.try_run(cmd) and build.try_run_quiet(cmd): whether the command
\* succeeded.
BuildTryRun(cmd) == cmd.ok

\* build.run(cmd) and build.run_quiet(cmd): the process ends when the
\* command fails.
BuildRunExits(cmd) == ~cmd.ok

\* Faulty variant of BumpFailures: the count is written back as it was.
BumpFailuresLost(failures) == failures

\* let failures = build.delayed_failures.get();
\* build.delayed_failures.set(failures + 1);
BumpFailures(failures) == failures + 1

RunsInit ==
    /\ no_fail_fast \in BOOLEAN
    /\ delayed_failures = 0
    /\ todo \in CmdSeqs
    /\ done = <<>>
    /\ exited = FALSE
    /\ MapsIdle
    /\ DocsIdle
    /\ TwinIdle
    /\ KratesIdle

\* fn try_run(build, cmd)
TryRun ==
    /\ ~exited
    /\ todo # <<>>
    /\ ~Head(todo).quiet
    /\ todo' = Tail(todo)
    /\ done' = Append(done, Head(todo))
    /\ IF no_fail_fast
       THEN /\ delayed_failures' = IF ~BuildTryRun(Head(todo))
                                   THEN BumpFailures(delayed_failures)
                                   ELSE delayed_failures
            /\ exited' = exited
       ELSE /\ exited' = BuildRunExits(Head(todo))
            /\ delayed_failures' = delayed_failures
    /\ UNCHANGED <<maps, docs, twin, krates, no_fail_fast>>

\* fn try_run_quiet(build, cmd)
TryRunQuiet ==
    /\ ~exited
    /\ todo # <<>>
    /\ Head(todo).quiet
    /\ todo' = Tail(todo)
    /\ done' = Append(done, Head(todo))
    /\ IF no_fail_fast
       THEN /\ delayed_failures' = IF ~BuildTryRun(Head(todo))
                                   THEN BumpFailures(delayed_failures)
                                   ELSE delayed_failures
            /\ exited' = exited
       ELSE /\ exited' = BuildRunExits(Head(todo))
            /\ delayed_failures' = delayed_failures
    /\ UNCHANGED <<maps, docs, twin, krates, no_fail_fast>>

RunsNext ==
    \/ TryRun
    \/ TryRunQuiet

RunsSpec == RunsInit /\ [][RunsNext]_vars

Failures(seq) == Cardinality({ i \in 1..Len(seq) : ~seq[i].ok })

MaxDeps == 3

\* Crate names; whether a name contains "jemalloc" is read off the name.
CrateNames == {"std", "core", "alloc_jemalloc", "build_helper"}

\* Mode::Libstd: the root of the traversal.
KrateRoot == "std"

\* name.contains("jemalloc")
ContainsJemalloc(name) == name \in {"alloc_jemalloc"}

\* cargo.arg("-p").arg(&format!("{}:0.0.0", name))
PackageArg(name) == <<"-p", <<name, ":", "0.0.0">>>>

\* build.crates: every crate with its dependencies, MaxDeps edges at most.
CrateGraphs ==
    { g \in [CrateNames -> SUBSET CrateNames] :
        Cardinality({ e \in CrateNames \X CrateNames : e[2] \in g[e[1]] }) <= MaxDeps }

KratesInit ==
    /\ crates \in CrateGraphs
    /\ next = <<>>
    /\ visited = {}
    /\ cargo_args = <<>>
    /\ krate_pc = "idle"
    /\ MapsIdle
    /\ DocsIdle
    /\ TwinIdle
    /\ RunsIdle

\* let mut visited = HashSet::new(); let mut next = vec![root];
KrateStart ==
    /\ krate_pc = "idle"
    /\ visited' = {}
    /\ next' = <<KrateRoot>>
    /\ krate_pc' = "loop"
    /\ UNCHANGED <<maps, docs, twin, runs, crates, cargo_args>>

\* One turn of `while let Some(name) = next.pop()`: the -p argument unless
\* the crate is skipped, then every dependency that visited.insert takes
\* is pushed, in the order the deps are listed.
KrateVisit ==
    /\ krate_pc = "loop"
    /\ next # <<>>
    /\ LET name == next[Len(next)]
           fresh == crates[name] \ visited
       IN  /\ cargo_args' = IF ~ContainsJemalloc(name) /\ name # "build_helper"
                            THEN Append(cargo_args, PackageArg(name))
                            ELSE cargo_args
           /\ visited' = visited \cup crates[name]
           /\ \E o \in Orders(fresh) :
                 next' = SubSeq(next, 1, Len(next) - 1) \o o
    /\ UNCHANGED <<maps, docs, twin, runs, crates, krate_pc>>

\* next.pop() is None: the loop ends.
KrateReturn ==
    /\ krate_pc = "loop"
    /\ next = <<>>
    /\ krate_pc' = "done"
    /\ UNCHANGED <<maps, docs, twin, runs, crates, next, visited, cargo_args>>

KratesNext ==
    \/ KrateStart
    \/ KrateVisit
    \/ KrateReturn

KratesSpec == KratesInit /\ [][KratesNext]_vars

\* The crates reachable from the names in S along the dependencies.
RECURSIVE ReachableFrom(_)
ReachableFrom(S) ==
    LET more == S \cup UNION { crates[n] : n \in S }
    IN  IF more = S THEN S ELSE ReachableFrom(more)

\* C24. krate without a crate name: when the traversal has ended, cargo
\* was passed exactly one -p <name>:0.0.0 for every crate reachable from
\* the root, the root included, whose name does not contain "jemalloc" and
\* is not build_helper, and none for any other crate, also when the root
\* is reachable from itself.
C24_KratePackageArgs ==
    krate_pc = "done" =>
        \A n \in CrateNames :
            Times(cargo_args, PackageArg(n)) =
                IF /\ n \in ReachableFrom({KrateRoot})
                   /\ ~ContainsJemalloc(n)
                   /\ n # "build_helper"
                THEN 1 ELSE 0

====
